---- MODULE Spec2Model ----
(***************************************************************************)
(* Model of src/pipeline/physics_hooks.rs: the RawPhysicsHooks dispatch    *)
(* (filter_contact_pair, filter_intersection_pair, modify_solver_contacts) *)
(* and the RawContactModificationContext view over one pair's solver       *)
(* contacts, normal and user-data word, with update_as_oneway_platform.    *)
(*                                                                         *)
(* Reals are fixed-point integers: vector components are in tenths, so a   *)
(* dot product or a squared norm is in hundredths; scalar fields of a      *)
(* contact (dist, friction, ...) and cosines are in hundredths.            *)
(***************************************************************************)
EXTENDS Integers, Sequences, FiniteSets, TLC

VARIABLES pc, hooks, solver_contacts, normal, user_data, local_n1, last, nops, steps, retired,
          entry

vars ==
    <<pc, hooks, solver_contacts, normal, user_data, local_n1, last, nops, steps, retired, entry>>

(* ------------------------------ bounds -------------------------------- *)

\* view operations one handler invocation performs, at most
MaxOps == 2
\* largest index handed to an index-based accessor
MaxIndex == 4
\* modify_solver_contacts invocations in a run, at most
MaxSteps == 2
\* times the pair separates (and the engine drops its manifold) in a run
MaxSeparations == 1

(* ------------------------------ values -------------------------------- *)

\* 1.0 and 0.0 in hundredths
One == 100
Zero == 0

\* largest value of the unsigned words (user data, flag bits, handle halves);
\* the code only compares and masks them, so the model keeps them 16 bits wide
U32Max == 65535

\* Option<T>: <<>> is None, <<v>> is Some(v); a unit return is <<>> too
None == <<>>
Some(v) == <<v>>

\* SolverContact values the upstream pipeline hands over (distinct in every field
\* that distinguishes them; dist 0.02, 0.02, -0.01, 0.0)
ContactA ==
    [point |-> <<10, 0, 0>>, dist |-> 2, friction |-> 50, restitution |-> 0,
     tangent_velocity |-> <<0, 0, 0>>, warmstart_impulse |-> 10,
     warmstart_tangent_impulse |-> <<1, 2>>, warmstart_twist_impulse |-> 3,
     is_new |-> One]
ContactB ==
    [point |-> <<20, 0, 0>>, dist |-> 2, friction |-> 60, restitution |-> 10,
     tangent_velocity |-> <<10, 0, 0>>, warmstart_impulse |-> 20,
     warmstart_tangent_impulse |-> <<4, 5>>, warmstart_twist_impulse |-> 6,
     is_new |-> Zero]
ContactC ==
    [point |-> <<30, 0, 0>>, dist |-> -1, friction |-> 70, restitution |-> 20,
     tangent_velocity |-> <<0, 10, 0>>, warmstart_impulse |-> 30,
     warmstart_tangent_impulse |-> <<7, 8>>, warmstart_twist_impulse |-> 9,
     is_new |-> One]
ContactD ==
    [point |-> <<40, 0, 0>>, dist |-> 0, friction |-> 80, restitution |-> 30,
     tangent_velocity |-> <<0, 0, 10>>, warmstart_impulse |-> 40,
     warmstart_tangent_impulse |-> <<10, 11>>, warmstart_twist_impulse |-> 12,
     is_new |-> Zero]

\* the solver-contact buffers the pipeline produces for the pair
ContactBuffers ==
    { <<>>, <<ContactA>>, <<ContactD>>, <<ContactA, ContactB>>,
      <<ContactA, ContactB, ContactC>>, <<ContactA, ContactB, ContactC, ContactD>> }

\* manifold normals: up, down, exactly zero, squared norm 0.05, squared norm 0.10
ManifoldNormals ==
    { <<0, 10, 0>>, <<0, -10, 0>>, <<0, 0, 0>>, <<2, 1, 0>>, <<3, 1, 0>> }

\* arguments the handler passes to the accessors
Indices == 0..MaxIndex
VectorArgs == { <<0, 10, 0>>, <<5, 5, 5>> }
RealArgs == { -3, 7 }
UserDataArgs == { 0, 1, 2, 3, U32Max }
AllowedNormals == { <<0, 10, 0>> }
AllowedAngles == { 0, 60, 180 }

(* ------------------- values of the external runtime ------------------ *)

\* a value of the host runtime: t is its type; a number is v hundredths, or NaN
JsNumber(v) == [t |-> "number", nan |-> FALSE, v |-> v]
JsNaN == [t |-> "number", nan |-> TRUE, v |-> 0]
JsBoolean(b) == [t |-> "boolean", nan |-> FALSE, v |-> IF b THEN 1 ELSE 0]
JsUndefined == [t |-> "undefined", nan |-> FALSE, v |-> 0]
JsString == [t |-> "string", nan |-> FALSE, v |-> 0]

\* answers of the external functions: -1, 0, 1, 1.5, 2, 3, one past the largest
\* word, and non-numbers
JsValues ==
    { JsNumber(v) : v \in { -100, 0, 100, 150, 200, 300, (U32Max + 1) * 100 } }
        \cup { JsNaN, JsBoolean(TRUE), JsBoolean(FALSE), JsUndefined, JsString }

\* Result<JsValue, JsValue> of Function::call1 / call2
JsOk(val) == [kind |-> "return", val |-> val]
JsErr == [kind |-> "throw", val |-> JsUndefined]
NoCall == [kind |-> "none", val |-> JsUndefined]
JsOutcomes == { JsOk(val) : val \in JsValues } \cup { JsErr }

\* the external hook object: each function is present or missing
HookConfigs ==
    [filter_contact_pair : {"present", "missing"},
     filter_intersection_pair : {"present", "missing"},
     modify_solver_contacts : {"present", "missing"}]

\* PairFilterContext: handles are <<index, generation>>; a collider may have no body
Contexts ==
    { [collider1 |-> <<0, 0>>, collider2 |-> <<1, 0>>,
       rigid_body1 |-> Some(<<0, 0>>), rigid_body2 |-> Some(<<1, 2>>)],
      [collider1 |-> <<2, 1>>, collider2 |-> <<1, 0>>,
       rigid_body1 |-> None, rigid_body2 |-> Some(<<1, 2>>)] }

(* --------------------------- pure helpers ----------------------------- *)

\* Vec::get / Vec::get_mut: the element at 0-based index i, or None
VecGet(v, i) == IF i < Len(v) THEN Some(v[i + 1]) ELSE None

\* Vec's Index impl (v[i]) panics exactly when i is out of bounds
IndexPanics(v, i) == i >= Len(v)

\* Vec::remove, the stable shift swap_remove is not
stable_remove(v, i) ==
    [j \in 1..(Len(v) - 1) |-> IF j < i + 1 THEN v[j] ELSE v[j + 1]]

\* Vec::swap_remove for i < len: the last element takes position i
swap_remove(v, i) ==
    LET n == Len(v) IN
    IF i + 1 = n THEN SubSeq(v, 1, n - 1)
    ELSE [j \in 1..(n - 1) |-> IF j = i + 1 THEN v[n] ELSE v[j]]

dot(a, b) == a[1] * b[1] + a[2] * b[2] + a[3] * b[3]

norm_squared(a) == dot(a, a)

\* ComplexField::cos on the angles (degrees) the handler passes, in hundredths
cos(angle) ==
    CASE angle = 0 -> 100
      [] angle = 60 -> 50
      [] angle = 90 -> 0
      [] angle = 180 -> -100

\* the 0.1 the squared norm of local_n1 is compared with, in hundredths
NormSquaredThreshold == 10

CONTACT_CONFIGURATION_UNKNOWN == 0
CONTACT_CURRENTLY_ALLOWED == 1
CONTACT_CURRENTLY_FORBIDDEN == 2

\* contact_is_ok of update_as_oneway_platform
contact_is_ok(n1, allowed_local_n1, allowed_angle) ==
    dot(n1, allowed_local_n1) >= cos(allowed_angle)

(* --------------------- bookkeeping of one view call ------------------- *)

\* the handler is running and may perform one more view operation
InHook == pc = "in_hook" /\ nops < MaxOps

\* what the view points at: the pair's buffer, normal and user-data word
View == [solver_contacts |-> solver_contacts, normal |-> normal, user_data |-> user_data]

\* the call returns normally with value ret
Return(op, i, arg, ret) ==
    /\ last' = [op |-> op, i |-> i, arg |-> arg, status |-> "ok", ret |-> ret,
                ud0 |-> user_data, n0 |-> Len(solver_contacts), js |-> NoCall]
    /\ nops' = nops + 1
    /\ UNCHANGED <<pc, hooks, local_n1, steps, retired, entry>>

\* the call panics: the wasm module traps and the step never completes
Panic(op, i, arg) ==
    /\ last' = [op |-> op, i |-> i, arg |-> arg, status |-> "panic", ret |-> None,
                ud0 |-> user_data, n0 |-> Len(solver_contacts), js |-> NoCall]
    /\ pc' = "aborted"
    /\ nops' = nops + 1
    /\ UNCHANGED <<hooks, solver_contacts, normal, user_data, local_n1, steps, retired, entry>>

\* the index slot of a call that takes no index
NoIndex == None

(* ----------------- RawContactModificationContext: shared -------------- *)

get_normal ==
    /\ InHook
    /\ Return("normal", NoIndex, None, Some(normal))
    /\ UNCHANGED <<solver_contacts, normal, user_data>>

set_normal(n) ==
    /\ InHook
    /\ normal' = n
    /\ Return("set_normal", NoIndex, Some(n), None)
    /\ UNCHANGED <<solver_contacts, user_data>>

get_user_data ==
    /\ InHook
    /\ Return("user_data", NoIndex, None, Some(user_data))
    /\ UNCHANGED <<solver_contacts, normal, user_data>>

set_user_data(ud) ==
    /\ InHook
    /\ user_data' = ud
    /\ Return("set_user_data", NoIndex, Some(ud), None)
    /\ UNCHANGED <<solver_contacts, normal>>

num_solver_contacts ==
    /\ InHook
    /\ Return("num_solver_contacts", NoIndex, None, Some(Len(solver_contacts)))
    /\ UNCHANGED <<solver_contacts, normal, user_data>>

clear_solver_contacts ==
    /\ InHook
    /\ solver_contacts' = <<>>
    /\ Return("clear_solver_contacts", NoIndex, None, None)
    /\ UNCHANGED <<normal, user_data>>

remove_solver_contact_unguarded(i) ==
    /\ InHook
    /\ IF IndexPanics(solver_contacts, i)
       THEN Panic("remove_solver_contact", i, None)
       ELSE /\ solver_contacts' = swap_remove(solver_contacts, i)
            /\ Return("remove_solver_contact", i, None, None)
            /\ UNCHANGED <<normal, user_data>>

remove_solver_contact(i) ==
    /\ InHook
    /\ solver_contacts' =
           IF i < Len(solver_contacts) THEN swap_remove(solver_contacts, i)
           ELSE solver_contacts
    /\ Return("remove_solver_contact", i, None, None)
    /\ UNCHANGED <<normal, user_data>>

(* -------------- RawContactModificationContext: per contact ------------ *)

solver_contact_point(i) ==
    /\ InHook
    /\ Return("solver_contact_point", i, None,
              IF VecGet(solver_contacts, i) = None THEN None
              ELSE Some(VecGet(solver_contacts, i)[1].point))
    /\ UNCHANGED <<solver_contacts, normal, user_data>>

\* writes past the end grow the buffer, as an array of the host runtime would
set_solver_contact_point_growing(i, pt) ==
    /\ InHook
    /\ solver_contacts' =
           IF VecGet(solver_contacts, i) # None
           THEN [solver_contacts EXCEPT ![i + 1].point = pt]
           ELSE Append(solver_contacts, [ContactA EXCEPT !.point = pt])
    /\ Return("set_solver_contact_point", i, Some(pt), None)
    /\ UNCHANGED <<normal, user_data>>

set_solver_contact_point(i, pt) ==
    /\ InHook
    /\ solver_contacts' =
           IF VecGet(solver_contacts, i) # None
           THEN [solver_contacts EXCEPT ![i + 1].point = pt]
           ELSE solver_contacts
    /\ Return("set_solver_contact_point", i, Some(pt), None)
    /\ UNCHANGED <<normal, user_data>>

solver_contact_dist(i) ==
    /\ InHook
    /\ Return("solver_contact_dist", i, None,
              IF VecGet(solver_contacts, i) = None THEN Some(Zero)
              ELSE Some(VecGet(solver_contacts, i)[1].dist))
    /\ UNCHANGED <<solver_contacts, normal, user_data>>

set_solver_contact_dist(i, dist) ==
    /\ InHook
    /\ solver_contacts' =
           IF VecGet(solver_contacts, i) # None
           THEN [solver_contacts EXCEPT ![i + 1].dist = dist]
           ELSE solver_contacts
    /\ Return("set_solver_contact_dist", i, Some(dist), None)
    /\ UNCHANGED <<normal, user_data>>

solver_contact_friction(i) ==
    /\ InHook
    /\ IF IndexPanics(solver_contacts, i)
       THEN Panic("solver_contact_friction", i, None)
       ELSE /\ Return("solver_contact_friction", i, None,
                      Some(solver_contacts[i + 1].friction))
            /\ UNCHANGED <<solver_contacts, normal, user_data>>

set_solver_contact_friction(i, friction) ==
    /\ InHook
    /\ solver_contacts' =
           IF VecGet(solver_contacts, i) # None
           THEN [solver_contacts EXCEPT ![i + 1].friction = friction]
           ELSE solver_contacts
    /\ Return("set_solver_contact_friction", i, Some(friction), None)
    /\ UNCHANGED <<normal, user_data>>

solver_contact_restitution(i) ==
    /\ InHook
    /\ IF IndexPanics(solver_contacts, i)
       THEN Panic("solver_contact_restitution", i, None)
       ELSE /\ Return("solver_contact_restitution", i, None,
                      Some(solver_contacts[i + 1].restitution))
            /\ UNCHANGED <<solver_contacts, normal, user_data>>

set_solver_contact_restitution(i, restitution) ==
    /\ InHook
    /\ solver_contacts' =
           IF VecGet(solver_contacts, i) # None
           THEN [solver_contacts EXCEPT ![i + 1].restitution = restitution]
           ELSE solver_contacts
    /\ Return("set_solver_contact_restitution", i, Some(restitution), None)
    /\ UNCHANGED <<normal, user_data>>

solver_contact_tangent_velocity(i) ==
    /\ InHook
    /\ IF IndexPanics(solver_contacts, i)
       THEN Panic("solver_contact_tangent_velocity", i, None)
       ELSE /\ Return("solver_contact_tangent_velocity", i, None,
                      Some(solver_contacts[i + 1].tangent_velocity))
            /\ UNCHANGED <<solver_contacts, normal, user_data>>

set_solver_contact_tangent_velocity(i, vel) ==
    /\ InHook
    /\ solver_contacts' =
           IF VecGet(solver_contacts, i) # None
           THEN [solver_contacts EXCEPT ![i + 1].tangent_velocity = vel]
           ELSE solver_contacts
    /\ Return("set_solver_contact_tangent_velocity", i, Some(vel), None)
    /\ UNCHANGED <<normal, user_data>>

solver_contact_warmstart_impulse(i) ==
    /\ InHook
    /\ IF IndexPanics(solver_contacts, i)
       THEN Panic("solver_contact_warmstart_impulse", i, None)
       ELSE /\ Return("solver_contact_warmstart_impulse", i, None,
                      Some(solver_contacts[i + 1].warmstart_impulse))
            /\ UNCHANGED <<solver_contacts, normal, user_data>>

set_solver_contact_warmstart_impulse(i, impulse) ==
    /\ InHook
    /\ solver_contacts' =
           IF VecGet(solver_contacts, i) # None
           THEN [solver_contacts EXCEPT ![i + 1].warmstart_impulse = impulse]
           ELSE solver_contacts
    /\ Return("set_solver_contact_warmstart_impulse", i, Some(impulse), None)
    /\ UNCHANGED <<normal, user_data>>

\* reads the x component only
solver_contact_warmstart_tangent_impulse(i) ==
    /\ InHook
    /\ IF IndexPanics(solver_contacts, i)
       THEN Panic("solver_contact_warmstart_tangent_impulse", i, None)
       ELSE /\ Return("solver_contact_warmstart_tangent_impulse", i, None,
                      Some(solver_contacts[i + 1].warmstart_tangent_impulse[1]))
            /\ UNCHANGED <<solver_contacts, normal, user_data>>

set_solver_contact_warmstart_tangent_impulse_y(i, impulse) ==
    /\ InHook
    /\ solver_contacts' =
           IF VecGet(solver_contacts, i) # None
           THEN [solver_contacts EXCEPT ![i + 1].warmstart_tangent_impulse[2] = impulse]
           ELSE solver_contacts
    /\ Return("set_solver_contact_warmstart_tangent_impulse", i, Some(impulse), None)
    /\ UNCHANGED <<normal, user_data>>

\* writes the x component only
set_solver_contact_warmstart_tangent_impulse(i, impulse) ==
    /\ InHook
    /\ solver_contacts' =
           IF VecGet(solver_contacts, i) # None
           THEN [solver_contacts EXCEPT ![i + 1].warmstart_tangent_impulse[1] = impulse]
           ELSE solver_contacts
    /\ Return("set_solver_contact_warmstart_tangent_impulse", i, Some(impulse), None)
    /\ UNCHANGED <<normal, user_data>>

solver_contact_warmstart_twist_impulse(i) ==
    /\ InHook
    /\ IF IndexPanics(solver_contacts, i)
       THEN Panic("solver_contact_warmstart_twist_impulse", i, None)
       ELSE /\ Return("solver_contact_warmstart_twist_impulse", i, None,
                      Some(solver_contacts[i + 1].warmstart_twist_impulse))
            /\ UNCHANGED <<solver_contacts, normal, user_data>>

set_solver_contact_warmstart_twist_impulse(i, impulse) ==
    /\ InHook
    /\ solver_contacts' =
           IF VecGet(solver_contacts, i) # None
           THEN [solver_contacts EXCEPT ![i + 1].warmstart_twist_impulse = impulse]
           ELSE solver_contacts
    /\ Return("set_solver_contact_warmstart_twist_impulse", i, Some(impulse), None)
    /\ UNCHANGED <<normal, user_data>>

solver_contact_is_new(i) ==
    /\ InHook
    /\ IF IndexPanics(solver_contacts, i)
       THEN Panic("solver_contact_is_new", i, None)
       ELSE /\ Return("solver_contact_is_new", i, None,
                      Some(solver_contacts[i + 1].is_new = One))
            /\ UNCHANGED <<solver_contacts, normal, user_data>>

set_solver_contact_is_new(i, is_new) ==
    /\ InHook
    /\ solver_contacts' =
           IF VecGet(solver_contacts, i) # None
           THEN [solver_contacts EXCEPT ![i + 1].is_new = IF is_new THEN One ELSE Zero]
           ELSE solver_contacts
    /\ Return("set_solver_contact_is_new", i, Some(is_new), None)
    /\ UNCHANGED <<normal, user_data>>

(* ---------------------- update_as_oneway_platform --------------------- *)

\* the CONTACT_CONFIGURATION_UNKNOWN arm: the word and the buffer it leaves
unknown_arm_always_forbids(contacts, is_ok, n1) ==
    IF is_ok
    THEN [user_data |-> CONTACT_CURRENTLY_ALLOWED, solver_contacts |-> contacts]
    ELSE [user_data |-> CONTACT_CURRENTLY_FORBIDDEN, solver_contacts |-> <<>>]

unknown_arm_clears_when_ok(contacts, is_ok, n1) ==
    [user_data |-> IF is_ok THEN CONTACT_CURRENTLY_ALLOWED
                   ELSE IF norm_squared(n1) > NormSquaredThreshold
                        THEN CONTACT_CURRENTLY_FORBIDDEN
                        ELSE CONTACT_CONFIGURATION_UNKNOWN,
     solver_contacts |-> <<>>]

unknown_arm_never_forbids(contacts, is_ok, n1) ==
    IF is_ok
    THEN [user_data |-> CONTACT_CURRENTLY_ALLOWED, solver_contacts |-> contacts]
    ELSE [user_data |-> CONTACT_CONFIGURATION_UNKNOWN, solver_contacts |-> <<>>]

unknown_arm(contacts, is_ok, n1) ==
    IF is_ok
    THEN [user_data |-> CONTACT_CURRENTLY_ALLOWED, solver_contacts |-> contacts]
    ELSE [user_data |-> IF norm_squared(n1) > NormSquaredThreshold
                        THEN CONTACT_CURRENTLY_FORBIDDEN
                        ELSE CONTACT_CONFIGURATION_UNKNOWN,
          solver_contacts |-> <<>>]

\* the CONTACT_CURRENTLY_FORBIDDEN arm
forbidden_arm_ignores_dist(contacts, is_ok) ==
    IF is_ok
    THEN [user_data |-> CONTACT_CURRENTLY_ALLOWED, solver_contacts |-> contacts]
    ELSE [user_data |-> CONTACT_CURRENTLY_FORBIDDEN, solver_contacts |-> <<>>]

forbidden_arm_resets_when_empty(contacts, is_ok) ==
    IF contacts = <<>>
    THEN [user_data |-> CONTACT_CONFIGURATION_UNKNOWN, solver_contacts |-> contacts]
    ELSE IF is_ok /\ \A k \in 1..Len(contacts) : contacts[k].dist > Zero
    THEN [user_data |-> CONTACT_CURRENTLY_ALLOWED, solver_contacts |-> contacts]
    ELSE [user_data |-> CONTACT_CURRENTLY_FORBIDDEN, solver_contacts |-> <<>>]

forbidden_arm_keeps_contacts(contacts, is_ok) ==
    IF is_ok /\ \A k \in 1..Len(contacts) : contacts[k].dist > Zero
    THEN [user_data |-> CONTACT_CURRENTLY_ALLOWED, solver_contacts |-> contacts]
    ELSE [user_data |-> CONTACT_CURRENTLY_FORBIDDEN, solver_contacts |-> contacts]

forbidden_arm_requires_contact(contacts, is_ok) ==
    IF is_ok /\ contacts # <<>> /\ \A k \in 1..Len(contacts) : contacts[k].dist > Zero
    THEN [user_data |-> CONTACT_CURRENTLY_ALLOWED, solver_contacts |-> contacts]
    ELSE [user_data |-> CONTACT_CURRENTLY_FORBIDDEN, solver_contacts |-> <<>>]

\* drops the penetrating contacts only
forbidden_arm_drops_penetrating(contacts, is_ok) ==
    IF is_ok /\ \A k \in 1..Len(contacts) : contacts[k].dist > Zero
    THEN [user_data |-> CONTACT_CURRENTLY_ALLOWED, solver_contacts |-> contacts]
    ELSE [user_data |-> CONTACT_CURRENTLY_FORBIDDEN,
          solver_contacts |-> SelectSeq(contacts, LAMBDA c : c.dist > Zero)]

forbidden_arm(contacts, is_ok) ==
    IF is_ok /\ \A k \in 1..Len(contacts) : contacts[k].dist > Zero
    THEN [user_data |-> CONTACT_CURRENTLY_ALLOWED, solver_contacts |-> contacts]
    ELSE [user_data |-> CONTACT_CURRENTLY_FORBIDDEN, solver_contacts |-> <<>>]

\* the CONTACT_CURRENTLY_ALLOWED arm
allowed_arm_always_unknown(contacts) ==
    [user_data |-> CONTACT_CONFIGURATION_UNKNOWN, solver_contacts |-> contacts]

allowed_arm(contacts) ==
    [user_data |-> IF contacts = <<>> THEN CONTACT_CONFIGURATION_UNKNOWN
                   ELSE CONTACT_CURRENTLY_ALLOWED,
     solver_contacts |-> contacts]

update_as_oneway_platform(allowed_local_n1, allowed_angle) ==
    LET is_ok == contact_is_ok(local_n1, allowed_local_n1, allowed_angle)
        arg == Some(<<allowed_local_n1, allowed_angle>>)
        op == "update_as_oneway_platform"
        arm == CASE user_data = CONTACT_CONFIGURATION_UNKNOWN ->
                        unknown_arm(solver_contacts, is_ok, local_n1)
                 [] user_data = CONTACT_CURRENTLY_FORBIDDEN ->
                        forbidden_arm(solver_contacts, is_ok)
                 [] user_data = CONTACT_CURRENTLY_ALLOWED ->
                        allowed_arm(solver_contacts)
    IN
    /\ InHook
    /\ IF user_data \in { CONTACT_CONFIGURATION_UNKNOWN, CONTACT_CURRENTLY_FORBIDDEN,
                          CONTACT_CURRENTLY_ALLOWED }
       THEN /\ user_data' = arm.user_data
            /\ solver_contacts' = arm.solver_contacts
            /\ Return(op, NoIndex, arg, None)
            /\ UNCHANGED normal
       ELSE \* unreachable!()
            Panic(op, NoIndex, arg)

(* --------------------------- RawPhysicsHooks -------------------------- *)

\* utils::flat_handle: index and generation folded into one number
flat_handle(h) == h[1] + h[2] * (U32Max + 1)

\* Option<handle>.map(flat_handle).unwrap_or(JsValue::NULL); None stands for null
body_arg(rb) == IF rb = None THEN None ELSE Some(flat_handle(rb[1]))

\* the four arguments the bound function is finally called with
call_args(ctxt) ==
    <<flat_handle(ctxt.collider1), flat_handle(ctxt.collider2),
      body_arg(ctxt.rigid_body1), body_arg(ctxt.rigid_body2)>>

\* JsValue::as_f64: Some for a number (NaN included), None otherwise
as_f64(val) == IF val.t = "number" THEN Some(val) ELSE None

\* JsValue::as_bool: Some for a boolean, None otherwise
as_bool(val) == IF val.t = "boolean" THEN Some(val.v = 1) ELSE None

\* `flags as u32`: truncates toward zero, saturates, NaN becomes 0
f64_as_u32(x) ==
    IF x.nan THEN 0
    ELSE IF x.v < 0 THEN 0
    ELSE IF x.v \div 100 > U32Max THEN U32Max
    ELSE x.v \div 100

\* SolverFlags: the only defined flag is COMPUTE_IMPULSES
COMPUTE_IMPULSES == 1

\* SolverFlags::from_bits: None when a bit outside the defined flags is set
from_bits(bits) ==
    IF bits - (bits % (2 * COMPUTE_IMPULSES)) = 0 THEN Some(bits) ELSE None

\* the record of a dispatch made by the pipeline
Dispatch(op, arg, status, ret, js) ==
    [op |-> op, i |-> NoIndex, arg |-> arg, status |-> status, ret |-> ret,
     ud0 |-> user_data, n0 |-> Len(solver_contacts), js |-> js]

\* Function::bind2 is not a catching import: on a missing function the host
\* raises and the exception unwinds through the step
filter_contact_pair(ctxt, js) ==
    /\ pc = "idle"
    /\ IF hooks.filter_contact_pair = "missing"
       THEN /\ pc' = "aborted"
            /\ last' = Dispatch("filter_contact_pair", Some(call_args(ctxt)),
                                "throw", None, NoCall)
       ELSE /\ pc' = pc
            /\ last' = Dispatch("filter_contact_pair", Some(call_args(ctxt)), "ok",
                                IF js.kind = "throw" THEN None
                                ELSE IF as_f64(js.val) = None THEN None
                                ELSE from_bits(f64_as_u32(as_f64(js.val)[1])),
                                js)
    /\ UNCHANGED <<hooks, solver_contacts, normal, user_data, local_n1, nops, steps, retired, entry>>

filter_intersection_pair_open(ctxt, js) ==
    /\ pc = "idle"
    /\ IF hooks.filter_intersection_pair = "missing"
       THEN /\ pc' = "aborted"
            /\ last' = Dispatch("filter_intersection_pair", Some(call_args(ctxt)),
                                "throw", None, NoCall)
       ELSE /\ pc' = pc
            /\ last' = Dispatch("filter_intersection_pair", Some(call_args(ctxt)), "ok",
                                IF js.kind = "throw" THEN Some(TRUE)
                                ELSE IF as_bool(js.val) = None THEN Some(TRUE)
                                ELSE as_bool(js.val),
                                js)
    /\ UNCHANGED <<hooks, solver_contacts, normal, user_data, local_n1, nops, steps, retired, entry>>

filter_intersection_pair(ctxt, js) ==
    /\ pc = "idle"
    /\ IF hooks.filter_intersection_pair = "missing"
       THEN /\ pc' = "aborted"
            /\ last' = Dispatch("filter_intersection_pair", Some(call_args(ctxt)),
                                "throw", None, NoCall)
       ELSE /\ pc' = pc
            /\ last' = Dispatch("filter_intersection_pair", Some(call_args(ctxt)), "ok",
                                IF js.kind = "throw" THEN Some(FALSE)
                                ELSE IF as_bool(js.val) = None THEN Some(FALSE)
                                ELSE as_bool(js.val),
                                js)
    /\ UNCHANGED <<hooks, solver_contacts, normal, user_data, local_n1, nops, steps, retired, entry>>

\* upstream of the hook: the pipeline has computed this step's solver contacts,
\* manifold normal and world normal of the pair; the user-data word persists
compute_contacts(contacts, n1) ==
    /\ pc = "idle"
    /\ steps < MaxSteps
    /\ pc' = "contacts_ready"
    /\ solver_contacts' = contacts
    /\ local_n1' = n1
    /\ normal' = n1
    /\ steps' = steps + 1
    /\ last' = [Dispatch("compute_contacts", None, "ok", None, NoCall)
                   EXCEPT !.n0 = Len(contacts)]
    /\ UNCHANGED <<hooks, user_data, nops, retired, entry>>

\* builds the view and calls the external handler; a missing handler makes
\* call1 fail at once, and the failure is dropped
modify_solver_contacts ==
    /\ pc = "contacts_ready"
    /\ nops' = 0
    /\ entry' = View
    /\ IF hooks.modify_solver_contacts = "missing"
       THEN /\ pc' = "idle"
            /\ last' = Dispatch("modify_solver_contacts", None, "ok", None, JsErr)
       ELSE /\ pc' = "in_hook"
            /\ last' = Dispatch("modify_solver_contacts_call", None, "ok", None, NoCall)
    /\ UNCHANGED <<hooks, solver_contacts, normal, user_data, local_n1, steps, retired>>

\* the external handler returns; the result of call1 is dropped
handler_returns ==
    /\ pc = "in_hook"
    /\ pc' = "idle"
    /\ last' = Dispatch("modify_solver_contacts", None, "ok", None, JsOk(JsUndefined))
    /\ UNCHANGED <<hooks, solver_contacts, normal, user_data, local_n1, nops, steps, retired, entry>>

\* the external handler fails; the Err of call1 is dropped
handler_throws ==
    /\ pc = "in_hook"
    /\ pc' = "idle"
    /\ last' = Dispatch("modify_solver_contacts", None, "ok", None, JsErr)
    /\ UNCHANGED <<hooks, solver_contacts, normal, user_data, local_n1, nops, steps, retired, entry>>

\* the pair stops touching: the engine drops its manifold, and a pair that
\* touches again starts from a fresh user-data word
pair_separates ==
    /\ pc = "idle"
    /\ steps > 0
    /\ Len(retired) < MaxSeparations
    /\ retired' = Append(retired, [word |-> user_data, step |-> steps])
    /\ user_data' = 0
    /\ solver_contacts' = <<>>
    /\ last' = Dispatch("pair_separates", None, "ok", None, NoCall)
    /\ UNCHANGED <<pc, hooks, normal, local_n1, nops, steps, entry>>

(* --------------------------- specifications --------------------------- *)

NewDispatch == 
    [op |-> "new", i |-> NoIndex, arg |-> None, status |-> "ok", ret |-> None,
     ud0 |-> 0, n0 |-> 0, js |-> NoCall]

AllPresent ==
    [filter_contact_pair |-> "present", filter_intersection_pair |-> "present",
     modify_solver_contacts |-> "present"]

\* the pair before its first step, with a complete hook object
Init ==
    /\ pc = "idle"
    /\ hooks = AllPresent
    /\ solver_contacts = <<>>
    /\ normal = <<0, 0, 0>>
    /\ local_n1 = <<0, 0, 0>>
    /\ user_data = 0
    /\ last = NewDispatch
    /\ nops = 0
    /\ steps = 0
    /\ retired = <<>>
    /\ entry = View

\* the pair over several steps, with a handler that runs the one-way platform
Next ==
    \/ \E contacts \in ContactBuffers, n1 \in ManifoldNormals : compute_contacts(contacts, n1)
    \/ modify_solver_contacts
    \/ \E n \in AllowedNormals, a \in AllowedAngles : update_as_oneway_platform(n, a)
    \/ \E ud \in UserDataArgs : set_user_data(ud)
    \/ clear_solver_contacts
    \/ handler_returns
    \/ handler_throws
    \/ pair_separates

Spec == Init /\ [][Next]_vars

\* the pair before its first step, under every configuration of the hook object
InitHooks ==
    /\ pc = "idle"
    /\ hooks \in HookConfigs
    /\ solver_contacts = <<>>
    /\ normal = <<0, 0, 0>>
    /\ local_n1 = <<0, 0, 0>>
    /\ user_data = 0
    /\ last = NewDispatch
    /\ nops = 0
    /\ steps = 0
    /\ retired = <<>>
    /\ entry = View

\* the three dispatches of RawPhysicsHooks, with a handler that edits the view
NextHooks ==
    \/ \E ctxt \in Contexts, js \in JsOutcomes : filter_contact_pair(ctxt, js)
    \/ \E ctxt \in Contexts, js \in JsOutcomes : filter_intersection_pair(ctxt, js)
    \/ \E contacts \in ContactBuffers : compute_contacts(contacts, <<0, 10, 0>>)
    \/ modify_solver_contacts
    \/ \E ud \in UserDataArgs : set_user_data(ud)
    \/ \E n \in VectorArgs : set_normal(n)
    \/ clear_solver_contacts
    \/ handler_returns
    \/ handler_throws

SpecHooks == InitHooks /\ [][NextHooks]_vars

\* one invocation of the handler over each buffer the pipeline can hand over
InitView ==
    /\ pc = "in_hook"
    /\ hooks = AllPresent
    /\ solver_contacts \in ContactBuffers
    /\ local_n1 = <<0, -10, 0>>
    /\ normal = local_n1
    /\ user_data = 0
    /\ last = [NewDispatch EXCEPT !.op = "modify_solver_contacts_call",
                                  !.n0 = Len(solver_contacts)]
    /\ nops = 0
    /\ steps = 1
    /\ retired = <<>>
    /\ entry = View

\* every accessor of the view
NextView ==
    \/ get_normal
    \/ \E n \in VectorArgs : set_normal(n)
    \/ get_user_data
    \/ \E ud \in UserDataArgs : set_user_data(ud)
    \/ num_solver_contacts
    \/ clear_solver_contacts
    \/ \E i \in Indices : remove_solver_contact(i)
    \/ \E i \in Indices : solver_contact_point(i)
    \/ \E i \in Indices, pt \in VectorArgs : set_solver_contact_point(i, pt)
    \/ \E i \in Indices : solver_contact_dist(i)
    \/ \E i \in Indices, x \in RealArgs : set_solver_contact_dist(i, x)
    \/ \E i \in Indices : solver_contact_friction(i)
    \/ \E i \in Indices, x \in RealArgs : set_solver_contact_friction(i, x)
    \/ \E i \in Indices : solver_contact_restitution(i)
    \/ \E i \in Indices, x \in RealArgs : set_solver_contact_restitution(i, x)
    \/ \E i \in Indices : solver_contact_tangent_velocity(i)
    \/ \E i \in Indices, v \in VectorArgs : set_solver_contact_tangent_velocity(i, v)
    \/ \E i \in Indices : solver_contact_warmstart_impulse(i)
    \/ \E i \in Indices, x \in RealArgs : set_solver_contact_warmstart_impulse(i, x)
    \/ \E i \in Indices : solver_contact_warmstart_tangent_impulse(i)
    \/ \E i \in Indices, x \in RealArgs : set_solver_contact_warmstart_tangent_impulse(i, x)
    \/ \E i \in Indices : solver_contact_warmstart_twist_impulse(i)
    \/ \E i \in Indices, x \in RealArgs : set_solver_contact_warmstart_twist_impulse(i, x)
    \/ \E i \in Indices : solver_contact_is_new(i)
    \/ \E i \in Indices, b \in BOOLEAN : set_solver_contact_is_new(i, b)
    \/ \E n \in AllowedNormals, a \in AllowedAngles : update_as_oneway_platform(n, a)

SpecView == InitView /\ [][NextView]_vars

(* ------------------------------ claims -------------------------------- *)

PerContactGetters ==
    { "solver_contact_point", "solver_contact_dist", "solver_contact_friction",
      "solver_contact_restitution", "solver_contact_tangent_velocity",
      "solver_contact_warmstart_impulse", "solver_contact_warmstart_tangent_impulse",
      "solver_contact_warmstart_twist_impulse", "solver_contact_is_new" }

IndexMutators ==
    { "remove_solver_contact", "set_solver_contact_point", "set_solver_contact_dist",
      "set_solver_contact_friction", "set_solver_contact_restitution",
      "set_solver_contact_tangent_velocity", "set_solver_contact_warmstart_impulse",
      "set_solver_contact_warmstart_tangent_impulse",
      "set_solver_contact_warmstart_twist_impulse", "set_solver_contact_is_new" }

\* this step is one call of the view operation op
Called(op) == last'.op = op /\ nops' = nops + 1

\* this step is one call of update_as_oneway_platform; IsOk is its contact_is_ok
UpdateStep == Called("update_as_oneway_platform")
IsOk == contact_is_ok(local_n1, last'.arg[1][1], last'.arg[1][2])
AllPositive == \A k \in 1..Len(solver_contacts) : solver_contacts[k].dist > Zero

\* C1: every per-contact getter called with an index i >= count() (also after
\* clear()) returns normally, with "absent" or a default value, and never fails.
C1_GettersTotalOutOfRange ==
    (last.op \in PerContactGetters /\ last.i >= last.n0) => last.status = "ok"

\* C2: update_as_oneway_platform returns normally for every value of the
\* user-data word, whatever view operations (set_user_data included) came before.
C2_UpdateNeverAborts ==
    last.op = "update_as_oneway_platform" => (last.status = "ok" /\ pc # "aborted")

\* C3: a failing external contact filter makes filter_contact_pair return None;
\* a failing external intersection filter, or one that answers a non-boolean,
\* makes filter_intersection_pair return false; both calls return normally.
C3_FailClosed ==
    /\ (last.op = "filter_contact_pair" /\ last.js.kind = "throw")
           => (last.status = "ok" /\ pc = "idle" /\ last.ret = None)
    /\ (last.op = "filter_intersection_pair"
            /\ (last.js.kind = "throw"
                   \/ (last.js.kind = "return" /\ last.js.val.t # "boolean")))
           => (last.status = "ok" /\ pc = "idle" /\ last.ret = Some(FALSE))

C3_Witness ==
    /\ last.op = "filter_intersection_pair"
    /\ last.js.kind = "return"
    /\ last.js.val.t = "number"
    /\ last.ret = Some(FALSE)

\* C4: a missing external hook is "always approve" for both filters and a no-op
\* for modify_solver_contacts.
C4_MissingHookApproves ==
    /\ (last.op = "filter_contact_pair" /\ hooks.filter_contact_pair = "missing")
           => (last.status = "ok" /\ last.ret # None)
    /\ (last.op = "filter_intersection_pair" /\ hooks.filter_intersection_pair = "missing")
           => (last.status = "ok" /\ last.ret = Some(TRUE))
    /\ (last.op = "modify_solver_contacts" /\ hooks.modify_solver_contacts = "missing")
           => (last.status = "ok" /\ Len(solver_contacts) = last.n0 /\ user_data = last.ud0)

\* C5: an update step in Forbidden with is_ok and every distance > 0 sets the
\* state to Allowed and keeps the contacts; any other update step in Forbidden
\* empties the contacts and leaves the state Forbidden.
C5_ForbiddenRecovery ==
    [][(UpdateStep /\ user_data = CONTACT_CURRENTLY_FORBIDDEN)
          => IF IsOk /\ AllPositive
             THEN /\ user_data' = CONTACT_CURRENTLY_ALLOWED
                  /\ solver_contacts' = solver_contacts
             ELSE /\ user_data' = CONTACT_CURRENTLY_FORBIDDEN
                  /\ solver_contacts' = <<>>]_vars

C5_Witness ==
    /\ last.op = "update_as_oneway_platform"
    /\ last.ud0 = CONTACT_CURRENTLY_FORBIDDEN
    /\ user_data = CONTACT_CURRENTLY_ALLOWED
    /\ Len(solver_contacts) = 2

\* C6: an update step in Unknown with is_ok false and a manifold normal of
\* squared length at most 0.1 empties the contacts and leaves the state Unknown.
C6_DegenerateNormalStaysUnknown ==
    [][(UpdateStep /\ user_data = CONTACT_CONFIGURATION_UNKNOWN /\ ~IsOk
            /\ norm_squared(local_n1) <= NormSquaredThreshold)
          => (solver_contacts' = <<>> /\ user_data' = CONTACT_CONFIGURATION_UNKNOWN)]_vars

C6_Witness ==
    /\ last.op = "update_as_oneway_platform"
    /\ last.ud0 = CONTACT_CONFIGURATION_UNKNOWN
    /\ user_data = CONTACT_CONFIGURATION_UNKNOWN
    /\ norm_squared(local_n1) = NormSquaredThreshold
    /\ last.n0 > 0
    /\ solver_contacts = <<>>

\* C7: an update step in Allowed with a non-empty contact sequence and is_ok
\* keeps every contact, in order, and leaves the state Allowed; so does any run
\* of such steps.
C7_AllowedIdempotent ==
    [][(UpdateStep /\ user_data = CONTACT_CURRENTLY_ALLOWED /\ solver_contacts # <<>>
            /\ IsOk)
          => (solver_contacts' = solver_contacts
                 /\ user_data' = CONTACT_CURRENTLY_ALLOWED)]_vars

C7_Witness ==
    /\ last.op = "update_as_oneway_platform"
    /\ last.ud0 = CONTACT_CURRENTLY_ALLOWED
    /\ user_data = CONTACT_CURRENTLY_ALLOWED
    /\ steps = 2
    /\ solver_contacts = <<ContactA, ContactB, ContactC, ContactD>>

\* the handler's first call in the first step after the pair last separated
FirstSinceSeparation ==
    /\ retired # <<>>
    /\ steps = retired[Len(retired)].step + 1
    /\ nops = 0

\* C8: from a fresh word, the first touch from below (is_ok false, normal not
\* degenerate) empties the contacts and ends Forbidden; after the pair has
\* separated, the touch from above (is_ok true) runs from Unknown and ends
\* Allowed with the contacts kept.
C8_EndToEnd ==
    [][UpdateStep =>
          /\ (steps = 1 /\ nops = 0 /\ retired = <<>> /\ ~IsOk
                  /\ norm_squared(local_n1) > NormSquaredThreshold)
                 => (solver_contacts' = <<>>
                        /\ user_data' = CONTACT_CURRENTLY_FORBIDDEN)
          /\ (FirstSinceSeparation
                  /\ retired[Len(retired)].word = CONTACT_CURRENTLY_FORBIDDEN /\ IsOk)
                 => (user_data = CONTACT_CONFIGURATION_UNKNOWN
                        /\ user_data' = CONTACT_CURRENTLY_ALLOWED
                        /\ solver_contacts' = solver_contacts)]_vars

C8_Witness ==
    /\ last.op = "update_as_oneway_platform"
    /\ retired = <<[word |-> CONTACT_CURRENTLY_FORBIDDEN, step |-> 1]>>
    /\ steps = 2
    /\ nops = 1
    /\ last.ud0 = CONTACT_CONFIGURATION_UNKNOWN
    /\ user_data = CONTACT_CURRENTLY_ALLOWED
    /\ solver_contacts = <<ContactA, ContactB>>

\* C9: remove_solver_contact and every per-contact setter, called with an index
\* i >= count(), return normally and leave the contacts, the normal and the
\* user-data word as they were.
C9_OutOfRangeMutatorsNoOp ==
    [][(\E op \in IndexMutators : Called(op)) /\ last'.i >= Len(solver_contacts)
          => (last'.status = "ok" /\ pc' = pc /\ solver_contacts' = solver_contacts
                 /\ normal' = normal /\ user_data' = user_data)]_vars

C9_Witness ==
    /\ last.op = "remove_solver_contact"
    /\ last.status = "ok"
    /\ last.n0 = 2
    /\ last.i = 2
    /\ solver_contacts = <<ContactA, ContactB>>

\* C10: remove_solver_contact(i) with i < count() shortens the sequence by one,
\* puts the former last contact at position i and keeps every other remaining
\* contact in place: <<a, b, c, d>> with i = 1 becomes <<a, d, c>>.
C10_SwapRemove ==
    [][(Called("remove_solver_contact") /\ last'.i < Len(solver_contacts))
          => LET n == Len(solver_contacts)
                 i == last'.i
             IN /\ Len(solver_contacts') = n - 1
                /\ \A j \in 1..(n - 1) :
                       solver_contacts'[j] =
                           IF j = i + 1 THEN solver_contacts[n] ELSE solver_contacts[j]
                /\ (solver_contacts = <<ContactA, ContactB, ContactC, ContactD>> /\ i = 1)
                       => solver_contacts' = <<ContactA, ContactD, ContactC>>]_vars

C10_Witness ==
    /\ last.op = "remove_solver_contact"
    /\ last.i = 1
    /\ last.n0 = 4
    /\ solver_contacts = <<ContactA, ContactD, ContactC>>

States ==
    { CONTACT_CONFIGURATION_UNKNOWN, CONTACT_CURRENTLY_ALLOWED, CONTACT_CURRENTLY_FORBIDDEN }

\* C11: count() changes only through clear_solver_contacts (to 0) and through
\* an in-range remove_solver_contact (down by exactly 1); every other accessor
\* leaves it unchanged for every index, and no view operation increases it.
C11_CountChanges ==
    [][/\ Len(solver_contacts') <= Len(solver_contacts)
       /\ (nops' = nops + 1 /\ last'.op # "update_as_oneway_platform")
             => LET n == Len(solver_contacts)
                    m == Len(solver_contacts')
                IN /\ last'.op = "clear_solver_contacts" => m = 0
                   /\ last'.op = "remove_solver_contact"
                         => m = IF last'.i < n THEN n - 1 ELSE n
                   /\ last'.op \notin { "clear_solver_contacts", "remove_solver_contact" }
                         => m = n]_vars

C11_Witness ==
    /\ last.op = "set_solver_contact_point"
    /\ last.i = 3
    /\ last.n0 = 3
    /\ nops = 2
    /\ Len(solver_contacts) = 3

\* C12: an update step in Unknown with is_ok sets the state to Allowed and
\* keeps the contacts; one with is_ok false and a normal of squared length above
\* 0.1 empties the contacts and sets the state to Forbidden.
C12_UnknownArm ==
    [][(UpdateStep /\ user_data = CONTACT_CONFIGURATION_UNKNOWN)
          => /\ IsOk => (user_data' = CONTACT_CURRENTLY_ALLOWED
                            /\ solver_contacts' = solver_contacts)
             /\ (~IsOk /\ norm_squared(local_n1) > NormSquaredThreshold)
                   => (user_data' = CONTACT_CURRENTLY_FORBIDDEN
                          /\ solver_contacts' = <<>>)]_vars

C12_Witness ==
    /\ last.op = "update_as_oneway_platform"
    /\ last.ud0 = CONTACT_CONFIGURATION_UNKNOWN
    /\ user_data = CONTACT_CURRENTLY_FORBIDDEN
    /\ last.n0 = 4
    /\ solver_contacts = <<>>
    /\ local_n1 = <<0, -10, 0>>

\* C13: over update steps the stored state stays in {Unknown, Allowed,
\* Forbidden} and changes only along Unknown->Allowed, Unknown->Forbidden,
\* Forbidden->Allowed and Allowed->Unknown; Allowed is left only in a step whose
\* contact sequence is empty.
C13_Transitions ==
    [][(UpdateStep /\ user_data \in States)
          => /\ user_data' \in States
             /\ user_data' # user_data
                   => <<user_data, user_data'>> \in
                          { <<CONTACT_CONFIGURATION_UNKNOWN, CONTACT_CURRENTLY_ALLOWED>>,
                            <<CONTACT_CONFIGURATION_UNKNOWN, CONTACT_CURRENTLY_FORBIDDEN>>,
                            <<CONTACT_CURRENTLY_FORBIDDEN, CONTACT_CURRENTLY_ALLOWED>>,
                            <<CONTACT_CURRENTLY_ALLOWED, CONTACT_CONFIGURATION_UNKNOWN>> }
             /\ (user_data = CONTACT_CURRENTLY_ALLOWED /\ user_data' # user_data)
                   => solver_contacts = <<>>]_vars

C13_Witness ==
    /\ last.op = "update_as_oneway_platform"
    /\ last.ud0 = CONTACT_CURRENTLY_ALLOWED
    /\ user_data = CONTACT_CONFIGURATION_UNKNOWN
    /\ last.n0 = 0
    /\ steps = 2

\* C14: after an update step started in Unknown, Allowed or Forbidden, a
\* non-empty contact sequence implies the stored state is Allowed.
C14_ContactsOnlyWhenAllowed ==
    (last.op = "update_as_oneway_platform" /\ last.status = "ok"
         /\ solver_contacts # <<>>)
        => user_data = CONTACT_CURRENTLY_ALLOWED

C14_Witness ==
    /\ last.op = "update_as_oneway_platform"
    /\ last.status = "ok"
    /\ last.ud0 = CONTACT_CONFIGURATION_UNKNOWN
    /\ solver_contacts = <<ContactA>>
    /\ user_data = CONTACT_CURRENTLY_ALLOWED

\* C15: an update step in Forbidden with is_ok and an empty contact sequence
\* moves the state to Allowed; an update step in Allowed with the sequence
\* (still) empty moves it to Unknown.
C15_VacuousRecovery ==
    [][(UpdateStep /\ solver_contacts = <<>>)
          => /\ (user_data = CONTACT_CURRENTLY_FORBIDDEN /\ IsOk)
                   => (user_data' = CONTACT_CURRENTLY_ALLOWED /\ solver_contacts' = <<>>)
             /\ user_data = CONTACT_CURRENTLY_ALLOWED
                   => (user_data' = CONTACT_CONFIGURATION_UNKNOWN
                          /\ solver_contacts' = <<>>)]_vars

C15_Witness ==
    /\ last.op = "update_as_oneway_platform"
    /\ last.ud0 = CONTACT_CURRENTLY_FORBIDDEN
    /\ last.n0 = 0
    /\ user_data = CONTACT_CURRENTLY_ALLOWED
    /\ solver_contacts = <<>>

\* C18: an update step leaves the contact sequence exactly as it was or
\* empties it, never writes the normal, and besides that writes only the pair's
\* user-data word.
C18_UpdateFrame ==
    [][UpdateStep
          => /\ (solver_contacts' = solver_contacts \/ solver_contacts' = <<>>)
             /\ normal' = normal
             /\ local_n1' = local_n1
             /\ hooks' = hooks
             /\ retired' = retired]_vars

C18_Witness ==
    /\ last.op = "update_as_oneway_platform"
    /\ last.ud0 = CONTACT_CURRENTLY_FORBIDDEN
    /\ user_data = CONTACT_CURRENTLY_FORBIDDEN
    /\ last.n0 = 3
    /\ solver_contacts = <<>>
    /\ normal = local_n1

\* the field of a contact each setter writes, and the getter that reads it
ContactFields ==
    { "point", "dist", "friction", "restitution", "tangent_velocity", "warmstart_impulse",
      "warmstart_tangent_impulse", "warmstart_twist_impulse", "is_new" }

PerContactSetters == { "set_solver_contact_" \o f : f \in ContactFields }

FieldOf(setter) == CHOOSE f \in ContactFields : setter = "set_solver_contact_" \o f

GetterOf(setter) == "solver_contact_" \o FieldOf(setter)

\* C19: for i < count(), a per-contact setter changes only its field of contact
\* i (no other field, no other contact, not count(), the normal or the
\* user-data word), and the matching getter called next at i returns the value
\* written.
C19_SetThenGet ==
    [][/\ ((\E op \in PerContactSetters : Called(op)) /\ last'.i < Len(solver_contacts))
             => LET f == FieldOf(last'.op)
                    k == last'.i + 1
                IN /\ Len(solver_contacts') = Len(solver_contacts)
                   /\ \A j \in 1..Len(solver_contacts) :
                          j # k => solver_contacts'[j] = solver_contacts[j]
                   /\ \A g \in ContactFields \ {f} :
                          solver_contacts'[k][g] = solver_contacts[k][g]
                   /\ f = "warmstart_tangent_impulse"
                         => solver_contacts'[k][f][2] = solver_contacts[k][f][2]
                   /\ normal' = normal
                   /\ user_data' = user_data
                   /\ last'.status = "ok"
       /\ (last.op \in PerContactSetters /\ last.i < last.n0
              /\ Called(GetterOf(last.op)) /\ last'.i = last.i)
             => (last'.status = "ok" /\ last'.ret = last.arg)]_vars

C19_Witness ==
    /\ last.op = "solver_contact_warmstart_tangent_impulse"
    /\ last.i = 1
    /\ last.ret = Some(7)
    /\ solver_contacts =
           <<ContactA, [ContactB EXCEPT !.warmstart_tangent_impulse = <<7, 5>>]>>

\* C16: when the external modify_solver_contacts handler fails, the call
\* returns normally and the modification is skipped: the solver contacts, the
\* normal and the user-data word are what they were when the call began, even
\* if the handler changed the view before failing.
C16_FailedHandlerSkipped ==
    (last.op = "modify_solver_contacts" /\ last.js.kind = "throw")
        => (last.status = "ok" /\ pc = "idle" /\ View = entry)

\* the whole part of a number of hundredths, rounded toward zero
IntegerValue(v) == IF v >= 0 THEN v \div 100 ELSE -((-v) \div 100)

\* C17: filter_contact_pair returns None when the external answer is not a
\* number or its integer value has a bit outside the defined solver flags, and
\* an approval carrying exactly the answered flag bits otherwise.
C17_UnparsableAnswerRejected ==
    (last.op = "filter_contact_pair" /\ last.js.kind = "return")
        => LET val == last.js.val IN
           IF val.t # "number" \/ val.nan
                 \/ IntegerValue(val.v) \notin { 0, COMPUTE_IMPULSES }
           THEN last.ret = None
           ELSE last.ret = Some(IntegerValue(val.v))

====
